---------------------------- MODULE Spec2Model ----------------------------
(***************************************************************************)
(* Model of package multihash (multihash.go, errors.go).                   *)
(*                                                                         *)
(* FromReader leases a buffer from bufferPool, starts one hashFeeder       *)
(* goroutine per hash.Hash, and then loops: read a chunk into the buffer,  *)
(* send its length once per feeder on the unbuffered channel readySignals, *)
(* receive one error value per feeder on the unbuffered channel            *)
(* errorChannel.  On (0, io.EOF) it closes readySignals and receives one   *)
(* digest from each feeder's own returnChannel, in argument order.         *)
(*                                                                         *)
(* A send and its receive on an unbuffered channel are one step, taken     *)
(* when both sides are at the channel operation.                           *)
(***************************************************************************)
EXTENDS Integers, Sequences, FiniteSets

(* ------------------------------ bounds -------------------------------- *)

\* Longest stream a reader delivers.
MaxLen == 3
\* Most hash.Hash values passed to one call.
MaxHashes == 2
\* Capacity of one pooled buffer; stands for bufferSize (2 ** 16).
BufCap == 2
\* Stream length and number of hashes of each call when two calls overlap.
PoolLen == 1
PoolHashes == 1

\* Values of a stream byte.  0 is the content of a buffer fresh from make().
Bytes == {1, 2}
\* The FromReader calls of one run.  Spec runs call 1 alone, SpecPool both.
Calls == {1, 2}
\* The buffers bufferPool.New can hand out: one per call is always enough.
Buffers == Calls
Workers == 1..MaxHashes

Min(a, b) == IF a < b THEN a ELSE b

(* ------------------------------ errors -------------------------------- *)

Err(kind, id) == [kind |-> kind, id |-> id]
Nil == Err("nil", 0)
EOF == Err("EOF", 0)
\* A reader's own failure (any error that is not io.EOF).
ErrReader == Err("read", 0)
\* The error hash number w returns from Write.
ErrWrite(w) == Err("write", w)
\* errors.Is(err, io.EOF)
IsEOF(e) == e.kind = "EOF"

(* ----------------------------- errors.go ------------------------------ *)

\* Largest crypto.Hash value tried.
MaxHashId == 19
\* crypto.Hash values (an unsigned integer type).
HashIds == 0..MaxHashId

\* The package's error values, each made by its own call of errors.New.
ErrBufferGetFailed == Err("bufferGet", 0)
ErrHashFunctionNotAvailable == Err("hashNotAvailable", 0)
\* Another error value whose text is also "hash function not available".
ErrSameText == Err("hashNotAvailable", 1)

\* UnavailableHashFunctionError{Hash: h}
Unavailable(h) == [kind |-> "unavailable", id |-> h]

\* The errors Is is asked about.
Targets ==
    {Nil, EOF, ErrReader, ErrBufferGetFailed, ErrHashFunctionNotAvailable,
     ErrSameText} \cup {Unavailable(h) : h \in HashIds}

\* Mutant: Is compares the texts of the two errors.
IsBySameText(e, target) == target.kind \in {"hashNotAvailable", "unavailable"}

\* func (e UnavailableHashFunctionError) Is(target error) bool
UnavailableIs(e, target) == target = ErrHashFunctionNotAvailable

\* No call of Is yet.
NoIsCall == [called |-> FALSE, e |-> Nil, target |-> Nil, result |-> FALSE]

(* --------------------------- hash.Hash -------------------------------- *)

\* A hash.Hash is modelled by the bytes written to it so far; Sum is
\* injective in them and tagged with the hash it comes from.
HashNew == << >>
HashWrite(h, p) == h \o p
HashSum(w, h) == [alg |-> w, data |-> h]

VARIABLES
    pc,            \* pc[c]: where call c of FromReader is
    stream,        \* stream[c]: the bytes call c's reader delivers
    pos,           \* pos[c]: how many of them Read has delivered
    nh,            \* nh[c]: len(hashFunctions)
    bufferPool,    \* the buffers Get can return
    mem,           \* mem[b]: the bytes of buffer b
    buffer,        \* buffer[c]: the buffer call c got (0: none yet)
    bytesRead,     \* bytesRead[c], readErr[c]: results of the last data.Read
    readErr,
    i,             \* i[c]: loop counter of the current for loop
    closed,        \* closed[c]: readySignals is closed
    hashset,       \* hashset[c], err[c]: FromReader's named results
    err,
    puts,          \* puts[c]: calls of bufferPool.Put made by call c
    firstErr,      \* firstErr[c]: first non-nil value received from errorChannel
    wpc,           \* wpc[c][w]: where hashFeeder w of call c is
    wn,            \* wn[c][w]: the feeder's bytesRead
    werr,          \* werr[c][w]: the feeder's err
    hash,          \* hash[c][w]: the state of the feeder's hash.Hash
    firstRead,     \* firstRead[c]: what the call's first data.Read returned
    consumed,      \* consumed[c][w]: hash.Write was called on the hash
    sums,          \* sums[c][w]: calls of hash.Sum on the hash
    got,           \* got[c][w]: lengths the feeder received since the last Read
    acked,         \* acked[c][w]: error values it sent since the last Read
    file,          \* file[c]: the *os.File of a call made through FromFile
    isCall         \* the last call of UnavailableHashFunctionError.Is

vars == <<pc, stream, pos, nh, bufferPool, mem, buffer, bytesRead, readErr, i,
          closed, hashset, err, puts, firstErr, wpc, wn, werr, hash,
          firstRead, consumed, sums, got, acked, file, isCall>>

\* What the run has done so far, kept for the properties below and read by
\* no action.
histVars == <<firstRead, consumed, sums, got, acked>>

orchVars == <<pc, bytesRead, readErr, i, closed, hashset, err, puts, firstErr,
              file>>
feederVars == <<wpc, wn, werr, hash>>
\* What no step of a call changes.
inputVars == <<stream, nh, isCall>>

Streams(maxlen) == UNION {[1..k -> Bytes] : k \in 0..maxlen}

\* make([]byte, bufferSize)
NewBuffer == [k \in 1..BufCap |-> 0]

\* Mutant: hashset allocated at entry with one nil digest per hash.
PreallocatedHashset(n) == [k \in 1..n |-> HashSum(0, << >>)]

\* The named result hashset [][]byte of a call with n hashes, at entry: nil.
ZeroHashset(n) == << >>


(* ------------------------------- Init --------------------------------- *)

\* The state when the calls in `called` are at `entry` ("get": FromReader
\* just entered; "open": FromFile just entered), call c with a stream drawn
\* from streams[c] and a number of hashes from `counts`.
InitAt(entry, called, streams, counts) ==
    /\ stream \in [Calls -> UNION {streams[c] : c \in Calls} \cup {<< >>}]
    /\ nh \in [Calls -> counts \cup {0}]
    /\ \A c \in Calls \ called : stream[c] = << >> /\ nh[c] = 0
    /\ \A c \in called : stream[c] \in streams[c] /\ nh[c] \in counts
    /\ pc = [c \in Calls |-> IF c \in called THEN entry ELSE "off"]
    /\ pos = [c \in Calls |-> 0]
    /\ bufferPool = Buffers
    /\ mem = [b \in Buffers |-> NewBuffer]
    /\ buffer = [c \in Calls |-> 0]
    /\ bytesRead = [c \in Calls |-> 0]
    /\ readErr = [c \in Calls |-> Nil]
    /\ i = [c \in Calls |-> 0]
    /\ closed = [c \in Calls |-> FALSE]
    /\ hashset = [c \in Calls |-> ZeroHashset(nh[c])]
    /\ err = [c \in Calls |-> Nil]
    /\ puts = [c \in Calls |-> 0]
    /\ firstErr = [c \in Calls |-> Nil]
    /\ wpc = [c \in Calls |-> [w \in Workers |-> "none"]]
    /\ wn = [c \in Calls |-> [w \in Workers |-> 0]]
    /\ werr = [c \in Calls |-> [w \in Workers |-> Nil]]
    /\ hash = [c \in Calls |-> [w \in Workers |-> HashNew]]
    /\ firstRead = [c \in Calls |-> "none"]
    /\ consumed = [c \in Calls |-> [w \in Workers |-> FALSE]]
    /\ sums = [c \in Calls |-> [w \in Workers |-> 0]]
    /\ got = [c \in Calls |-> [w \in Workers |-> 0]]
    /\ acked = [c \in Calls |-> [w \in Workers |-> 0]]
    /\ file = [c \in Calls |-> "none"]
    /\ isCall = NoIsCall

\* The state when the calls in `called` have just entered FromReader.
InitWith(called, streams, counts) == InitAt("get", called, streams, counts)

\* One call, on any stream of at most MaxLen bytes, with 0..MaxHashes hashes.
Init == InitWith({1}, [c \in Calls |-> Streams(MaxLen)], 0..MaxHashes)

\* Two calls at once.  Call c reads PoolLen bytes of value c, so that a byte
\* of one call's stream reaching the other call's hashes shows in the digest.
InitPool == InitWith(Calls, [c \in Calls |-> {[k \in 1..PoolLen |-> c]}],
                     {PoolHashes})

\* One call of FromFile, on any file of at most MaxLen bytes.
InitFile == InitAt("open", {1}, [c \in Calls |-> Streams(MaxLen)], 0..MaxHashes)

(* ---------------------------- FromReader ------------------------------ *)

\* Call c holds its buffer: from bufferPool.Get to the deferred Put.
Leased(c) == pc[c] \notin {"off", "get", "done"}

\* Mutant: Get hands a buffer out and leaves it in the pool.
PoolKeepsBuffer(b) == bufferPool

\* bufferPool.Get(): any pooled buffer, or a new one; it leaves the pool.
PoolAfterGet(b) == bufferPool \ {b}

\* buffer, ok := (bufferPool.Get()).(*[]byte).  The pool only ever holds what
\* New and the deferred Put give it, both *[]byte, so ok is true.
GetBuffer(c) ==
    /\ pc[c] = "get"
    /\ \E b \in bufferPool :
        /\ buffer' = [buffer EXCEPT ![c] = b]
        /\ bufferPool' = PoolAfterGet(b)
    /\ pc' = [pc EXCEPT ![c] = "spawn"]
    /\ UNCHANGED <<pos, mem, bytesRead, readErr, i, closed, hashset, err, puts,
                   firstErr>>
    /\ UNCHANGED <<feederVars, inputVars, histVars, file>>

\* Mutant: all feeders send their digest on one shared channel.
SharedReturnChannel(n, k) == 1..n

\* returnChannels[index] = returnChannel: of the n feeders, the ones sending
\* on the channel at position k.  Each feeder is started with a channel of
\* its own, stored at the position of its hash.
ReturnChannel(n, k) == {k}

\* The for loop starting one hashFeeder per hash; each blocks at once on
\* `range readySignals`.
Spawn(c) ==
    /\ pc[c] = "spawn"
    /\ wpc' = [wpc EXCEPT ![c] = [w \in Workers |->
                                     IF w <= nh[c] THEN "recv" ELSE "none"]]
    /\ pc' = [pc EXCEPT ![c] = "read"]
    /\ UNCHANGED <<pos, bufferPool, mem, buffer, bytesRead, readErr, i, closed,
                   hashset, err, puts, firstErr, wn, werr, hash, inputVars,
                   histVars, file>>

\* defer bufferPool.Put(buffer)
DeferredPut(c) ==
    /\ bufferPool' = bufferPool \cup {buffer[c]}
    /\ puts' = [puts EXCEPT ![c] = @ + 1]

\* defer f.Close(), run when FromFile returns what FromReader returned to it.
\* A call made to FromReader directly has no file.
DeferredClose(c) ==
    file' = [file EXCEPT ![c] = IF @ = "open" THEN "closed" ELSE @]

\* Mutant: Put at the end of the function instead of deferred, so that the
\* error returns skip it.
ReturnPutOnSuccessOnly(c, hs, e) ==
    /\ pc' = [pc EXCEPT ![c] = "done"]
    /\ hashset' = [hashset EXCEPT ![c] = hs]
    /\ err' = [err EXCEPT ![c] = e]
    /\ IF e = Nil THEN DeferredPut(c) ELSE UNCHANGED <<bufferPool, puts>>
    /\ DeferredClose(c)

\* Mutant: f.Close() after the call of FromReader instead of deferred, and
\* only when it returned no error.
ReturnCloseOnSuccessOnly(c, hs, e) ==
    /\ pc' = [pc EXCEPT ![c] = "done"]
    /\ hashset' = [hashset EXCEPT ![c] = hs]
    /\ err' = [err EXCEPT ![c] = e]
    /\ DeferredPut(c)
    /\ IF e = Nil THEN DeferredClose(c) ELSE UNCHANGED file

\* return hs, e: the named results are set and the deferred Put runs; in a
\* call made through FromFile, FromFile returns the same and its deferred
\* Close runs.
Return(c, hs, e) ==
    /\ pc' = [pc EXCEPT ![c] = "done"]
    /\ hashset' = [hashset EXCEPT ![c] = hs]
    /\ err' = [err EXCEPT ![c] = e]
    /\ DeferredPut(c)
    /\ DeferredClose(c)

\* The error of os.Open.
ErrOpen == Err("open", 0)

\* Lines 35-40 of FromFile: os.Open(filename).  When it fails FromFile
\* returns its error and the nil hashset; else the file is open, its Close is
\* deferred and FromReader is entered.
OpenFile(c) ==
    /\ pc[c] = "open"
    /\ \/ /\ file' = [file EXCEPT ![c] = "open"]
          /\ pc' = [pc EXCEPT ![c] = "get"]
          /\ UNCHANGED err
       \/ /\ file' = [file EXCEPT ![c] = "failed"]
          /\ pc' = [pc EXCEPT ![c] = "done"]
          /\ err' = [err EXCEPT ![c] = ErrOpen]
    /\ UNCHANGED <<pos, bufferPool, mem, buffer, bytesRead, readErr, i, closed,
                   hashset, puts, firstErr, feederVars, inputVars, histVars>>

\* What one data.Read may return with `left` bytes of the stream undelivered:
\* n bytes (at most the buffer's capacity) and no error, the last bytes or
\* none together with io.EOF, or any n bytes and the reader's own error.
ReadResults(left) ==
    {r \in [n : 0..Min(BufCap, left), err : {Nil, EOF, ErrReader}] :
        r.err = EOF => r.n = left}

\* The buffer after Read copied the next n stream bytes to its front.
Filled(b, s, p, n) ==
    [k \in 1..BufCap |-> IF k <= n THEN s[p + k] ELSE mem[b][k]]

\* Mutant: io.EOF is returned like any other error.
ReadOutcomeEOFIsError(n, e) == IF e # Nil THEN "return" ELSE "broadcast"

\* Mutant: bytes returned together with an error are broadcast before the
\* error is looked at, and the error is then forgotten.
ReadOutcomeBytesFirst(n, e) ==
    IF n > 0 \/ e = Nil THEN "broadcast"
    ELSE IF IsEOF(e) THEN "break" ELSE "return"

\* Lines 67-73: what the loop does with the (n, e) Read returned: "break"
\* after close(readySignals), "return" e, or go on to "broadcast" n.
ReadOutcome(n, e) ==
    IF e # Nil
    THEN IF n = 0 /\ IsEOF(e) THEN "break" ELSE "return"
    ELSE "broadcast"

\* Lines 66-73: data.Read(*buffer) and the handling of its error.
Read(c) ==
    /\ pc[c] = "read"
    /\ \E r \in ReadResults(Len(stream[c]) - pos[c]) :
        /\ mem' = [mem EXCEPT ![buffer[c]] = Filled(buffer[c], stream[c], pos[c], r.n)]
        /\ pos' = [pos EXCEPT ![c] = @ + r.n]
        /\ bytesRead' = [bytesRead EXCEPT ![c] = r.n]
        /\ readErr' = [readErr EXCEPT ![c] = r.err]
        /\ firstRead' = [firstRead EXCEPT ![c] =
                            IF @ # "none" THEN @
                            ELSE IF r.n = 0 /\ r.err = EOF THEN "eof" ELSE "other"]
        /\ CASE ReadOutcome(r.n, r.err) = "break" ->
                   \* close(readySignals); break; with no hash the collecting
                   \* loop has no iteration and the call returns
                   /\ closed' = [closed EXCEPT ![c] = TRUE]
                   /\ i' = [i EXCEPT ![c] = 0]
                   /\ IF nh[c] = 0
                      THEN Return(c, hashset[c], Nil)
                      ELSE /\ pc' = [pc EXCEPT ![c] = "collect"]
                           /\ UNCHANGED <<hashset, err, puts, bufferPool, file>>
             [] ReadOutcome(r.n, r.err) = "return" ->
                   \* return hashset, err
                   /\ Return(c, hashset[c], r.err)
                   /\ UNCHANGED <<closed, i>>
             [] OTHER ->
                   \* on to the sending loop; with no hash neither loop has
                   \* an iteration and the next Read follows
                   /\ pc' = [pc EXCEPT ![c] = IF nh[c] = 0 THEN "read" ELSE "send"]
                   /\ i' = [i EXCEPT ![c] = 0]
                   /\ UNCHANGED <<closed, hashset, err, puts, bufferPool, file>>
        /\ IF ReadOutcome(r.n, r.err) \in {"break", "return"}
           THEN UNCHANGED <<got, acked>>
           ELSE /\ got' = [got EXCEPT ![c] = [w \in Workers |-> 0]]
                /\ acked' = [acked EXCEPT ![c] = [w \in Workers |-> 0]]
    /\ UNCHANGED <<buffer, firstErr, feederVars, inputVars, consumed, sums>>

\* Lines 74-76: readySignals <- bytesRead, received by a feeder waiting in
\* `range readySignals`.
SendSignal(c, w) ==
    /\ pc[c] = "send"
    /\ wpc[c][w] = "recv"
    /\ wn' = [wn EXCEPT ![c][w] = bytesRead[c]]
    /\ wpc' = [wpc EXCEPT ![c][w] = "write"]
    /\ got' = [got EXCEPT ![c][w] = @ + 1]
    /\ i' = [i EXCEPT ![c] = IF @ + 1 = nh[c] THEN 0 ELSE @ + 1]
    /\ pc' = [pc EXCEPT ![c] = IF i[c] + 1 = nh[c] THEN "barrier" ELSE "send"]
    /\ UNCHANGED <<pos, bufferPool, mem, buffer, bytesRead, readErr, closed,
                   hashset, err, puts, firstErr, werr, hash, inputVars,
                   firstRead, consumed, sums, acked, file>>

\* Mutant: the receiving loop runs once more than there are feeders.
BarrierOneTooMany(k, n) == k = n + 1

\* Mutant: the receiving loop starts counting at 1 and so receives one
\* value fewer than there are feeders.
BarrierOffByOne(k, n) == k >= n - 1

\* Whether the receive loop of lines 77-81 has had its last iteration after
\* k values were received.
BarrierPassed(k, n) == k = n

\* Mutant: the loop receives all n values and looks only at the last.
AckOutcomeLastOnly(e, k, n) ==
    IF k < n THEN "barrier"
    ELSE IF e # Nil THEN "return" ELSE "read"

\* Lines 78-80: what the receiving loop does with the k-th value e received
\* of n: "return" it when it is not nil, else receive again ("barrier") or
\* go back to "read".
AckOutcome(e, k, n) ==
    IF e # Nil THEN "return"
    ELSE IF BarrierPassed(k, n) THEN "read" ELSE "barrier"

\* Lines 77-81: err = <-errorChannel, sent by a feeder after its Write.
RecvError(c, w) ==
    /\ pc[c] = "barrier"
    /\ wpc[c][w] = "ack"
    /\ wpc' = [wpc EXCEPT ![c][w] = "recv"]
    /\ acked' = [acked EXCEPT ![c][w] = @ + 1]
    /\ firstErr' = [firstErr EXCEPT ![c] = IF @ = Nil THEN werr[c][w] ELSE @]
    /\ IF AckOutcome(werr[c][w], i[c] + 1, nh[c]) = "return"
       THEN /\ Return(c, hashset[c], werr[c][w])
            /\ UNCHANGED i
       ELSE /\ pc' = [pc EXCEPT ![c] = AckOutcome(werr[c][w], i[c] + 1, nh[c])]
            /\ i' = [i EXCEPT ![c] = IF pc'[c] = "read" THEN 0 ELSE @ + 1]
            /\ UNCHANGED <<hashset, err, puts, bufferPool, file>>
    /\ UNCHANGED <<pos, mem, buffer, bytesRead, readErr, closed, wn, werr, hash,
                   inputVars, firstRead, consumed, sums, got>>

\* Lines 84-87: hashset = append(hashset, <-returnChannel) for the next
\* channel of returnChannels, then return hashset, nil after the last.
Collect(c) ==
    /\ pc[c] = "collect"
    /\ \E w \in ReturnChannel(nh[c], i[c] + 1) :
        LET hs == Append(hashset[c], HashSum(w, hash[c][w]))
        IN /\ wpc[c][w] = "ret"
           /\ wpc' = [wpc EXCEPT ![c][w] = "exit"]
           /\ IF i[c] + 1 = nh[c]
              THEN /\ Return(c, hs, Nil)
                   /\ UNCHANGED i
              ELSE /\ hashset' = [hashset EXCEPT ![c] = hs]
                   /\ i' = [i EXCEPT ![c] = @ + 1]
                   /\ UNCHANGED <<pc, err, puts, bufferPool, file>>
    /\ UNCHANGED <<pos, mem, buffer, bytesRead, readErr, closed, firstErr, wn,
                   werr, hash, inputVars, histVars>>

(* ---------------------------- hashFeeder ------------------------------ *)

\* Mutant: the slice handed to Write is one byte longer than the length
\* received.
ChunkOneMore(b, n) == SubSeq(mem[b], 1, Min(n + 1, BufCap))

\* Mutant: hash.Write(*buffer), the whole buffer whatever was read.
ChunkWholeBuffer(b, n) == mem[b]

\* (*buffer)[:bytesRead]
Chunk(b, n) == SubSeq(mem[b], 1, n)

\* The values the feeder's read of the buffer can yield.  While the call that
\* started the feeder holds the buffer, or nobody does, the bytes are stable.
\* After that call returned, another call may hold the buffer and write it in
\* its Read, unordered with this read: every byte read may be old or new.
Observed(c, n) ==
    IF \E d \in Calls \ {c} : Leased(d) /\ buffer[d] = buffer[c]
    THEN [1..n -> Bytes \cup {0}]
    ELSE {Chunk(buffer[c], n)}

\* Mutant: the feeder reports only the Writes that failed.
AckOnlyErrors(e) == IF e = Nil THEN "recv" ELSE "ack"

\* Line 108: errorChannel <- err, whatever err is: where the feeder is after
\* its Write returned e.
AfterWrite(e) == "ack"

\* Line 107: _, err := hash.Write((*buffer)[:bytesRead]).  hash.Write may
\* return an error, having taken in any number of the leading bytes (the
\* count it returns is dropped).
FeederWrite(c, w) ==
    /\ wpc[c][w] = "write"
    /\ \E p \in Observed(c, wn[c][w]) :
        \/ /\ hash' = [hash EXCEPT ![c][w] = HashWrite(@, p)]
           /\ werr' = [werr EXCEPT ![c][w] = Nil]
        \/ /\ werr' = [werr EXCEPT ![c][w] = ErrWrite(w)]
           /\ \E k \in 0..Len(p) :
                hash' = [hash EXCEPT ![c][w] = HashWrite(@, SubSeq(p, 1, k))]
    /\ wpc' = [wpc EXCEPT ![c][w] = AfterWrite(werr'[c][w])]
    /\ consumed' = [consumed EXCEPT ![c][w] = TRUE]
    /\ UNCHANGED <<pos, bufferPool, mem, buffer, wn, orchVars, inputVars,
                   firstRead, sums, got, acked>>

\* Mutant: the feeder finalises as soon as it waits for a length, without
\* waiting for readySignals to be closed.
RangeEndedEarly(c) == TRUE

\* Line 106: `range readySignals` ends when the channel is closed.
RangeEnded(c) == closed[c]

\* Lines 106, 110: readySignals is closed, the range loop ends, and
\* hash.Sum(nil) is evaluated for the send on returnChannel.
FeederSum(c, w) ==
    /\ wpc[c][w] = "recv"
    /\ RangeEnded(c)
    /\ wpc' = [wpc EXCEPT ![c][w] = "ret"]
    /\ sums' = [sums EXCEPT ![c][w] = @ + 1]
    /\ UNCHANGED <<pos, bufferPool, mem, buffer, wn, werr, hash, orchVars,
                   inputVars, firstRead, consumed, got, acked>>

(* ------------------------------- Next --------------------------------- *)

Next ==
    \E c \in Calls :
        \/ GetBuffer(c)
        \/ Spawn(c)
        \/ Read(c)
        \/ Collect(c)
        \/ \E w \in Workers :
            \/ SendSignal(c, w)
            \/ RecvError(c, w)
            \/ FeederWrite(c, w)
            \/ FeederSum(c, w)

\* One call of FromReader.
Spec == Init /\ [][Next]_vars

\* Two calls of FromReader sharing bufferPool.
SpecPool == InitPool /\ [][Next]_vars

NextFile ==
    \/ Next
    \/ \E c \in Calls : OpenFile(c)

\* One call of FromFile.
SpecFile == InitFile /\ [][NextFile]_vars

(* ------------------- UnavailableHashFunctionError.Is ------------------ *)

\* No call of FromFile or FromReader, only calls of Is.
InitErrors == InitWith({}, [c \in Calls |-> {<< >>}], {0})

\* UnavailableHashFunctionError{h}.Is(target)
IsCall ==
    /\ \E h \in HashIds, target \in Targets :
        isCall' = [called |-> TRUE, e |-> Unavailable(h), target |-> target,
                   result |-> UnavailableIs(Unavailable(h), target)]
    /\ UNCHANGED <<pc, stream, pos, nh, bufferPool, mem, buffer, bytesRead,
                   readErr, i, closed, hashset, err, puts, firstErr,
                   feederVars, histVars, file>>

NextErrors == IsCall

SpecErrors == InitErrors /\ [][NextErrors]_vars

(* ----------------------- a run without failures ----------------------- *)

\* No Read has returned the reader's own error or bytes together with
\* io.EOF, and no Write has failed.
Benign ==
    \A c \in Calls :
        /\ readErr[c] # ErrReader
        /\ readErr[c] = EOF => bytesRead[c] = 0
        /\ \A w \in Workers : werr[c][w] = Nil

\* The steps of Next that keep the run free of failures.
LiveNext ==
    \E c \in Calls :
        \/ GetBuffer(c) /\ Benign'
        \/ Spawn(c) /\ Benign'
        \/ Read(c) /\ Benign'
        \/ Collect(c) /\ Benign'
        \/ \E w \in Workers :
            \/ SendSignal(c, w) /\ Benign'
            \/ RecvError(c, w) /\ Benign'
            \/ FeederWrite(c, w) /\ Benign'
            \/ FeederSum(c, w) /\ Benign'

\* A step of FromReader itself in call c: its own statements and its side of
\* the channel operations.
Orchestrator(c) ==
    \/ GetBuffer(c)
    \/ Spawn(c)
    \/ Read(c)
    \/ Collect(c)
    \/ \E w \in Workers : SendSignal(c, w) \/ RecvError(c, w)

\* A step of hashFeeder w of call c that needs no partner.
Feeder(c, w) == FeederWrite(c, w) \/ FeederSum(c, w)

\* A Read that delivers bytes, or reports the end of the stream.
ReaderProgress(c) ==
    Read(c) /\ (bytesRead'[c] > 0 \/ readErr'[c] = EOF)

\* One call without failures, under the scheduling Go gives: a goroutine
\* that can run does run (weak fairness of FromReader's and of every
\* feeder's steps), and a reader of a finite stream returns zero bytes
\* without io.EOF only finitely often (strong fairness of ReaderProgress,
\* which is enabled each time the loop is back at data.Read).
SpecLive ==
    /\ Init
    /\ [][LiveNext]_vars
    /\ \A c \in Calls :
        /\ WF_vars(Orchestrator(c) /\ Benign')
        /\ SF_vars(ReaderProgress(c) /\ Benign')
        /\ \A w \in Workers : WF_vars(Feeder(c, w) /\ Benign')

(* ------------------------------ claims -------------------------------- *)

Returned(c) == pc[c] = "done"
Feeders(c) == 1..nh[c]

\* The digests of one unchunked pass of every hash over the whole stream.
WholeStreamDigests(c) ==
    [k \in 1..nh[c] |-> HashSum(k, HashWrite(HashNew, stream[c]))]

\* C1: a call that returns without error returns, for every hash, the digest
\* of exactly the stream's bytes, each once and in order, however the reader
\* split the stream into reads.
C1_ChunkIndependence ==
    \A c \in Calls :
        Returned(c) /\ err[c] = Nil => hashset[c] = WholeStreamDigests(c)

\* A successful call with two hashes over a stream longer than the buffer.
C1_Witness ==
    /\ Returned(1) /\ err[1] = Nil
    /\ nh[1] >= 2
    /\ Len(stream[1]) > BufCap

\* C2: FromReader is at data.Read only while no feeder is between receiving
\* a chunk length and having its error value received.
C2_Barrier ==
    \A c \in Calls :
        pc[c] = "read" =>
            \A w \in Feeders(c) : wpc[c][w] \notin {"write", "ack"}

\* About to read a further chunk after two feeders consumed one.
C2_Witness ==
    /\ pc[1] = "read"
    /\ nh[1] >= 2
    /\ pos[1] > 0 /\ pos[1] < Len(stream[1])
    /\ \A w \in Feeders(1) : Len(hash[1][w]) = pos[1]

\* C3: a call that returns without error returns one digest per hash, the
\* one at position k produced by the hash passed at position k.
C3_DigestOrder ==
    \A c \in Calls :
        Returned(c) /\ err[c] = Nil =>
            /\ Len(hashset[c]) = nh[c]
            /\ \A k \in 1..Len(hashset[c]) : hashset[c][k].alg = k

\* A successful call with two hashes over a non-empty stream.
C3_Witness ==
    /\ Returned(1) /\ err[1] = Nil
    /\ nh[1] >= 2
    /\ Len(hashset[1]) = 2
    /\ stream[1] # << >>

\* C4: a call that returns an error returns no digest.
C4_NoPartialResult ==
    \A c \in Calls :
        Returned(c) /\ err[c] # Nil => hashset[c] = << >>

\* A call with two hashes that returned a Write error.
C4_Witness ==
    /\ Returned(1) /\ err[1].kind = "write"
    /\ nh[1] >= 2

\* C5: after a call returned the Write error of the one hash whose Write
\* failed, it returned no digest and no feeder of the call is blocked on
\* readySignals or on errorChannel.
C5_WriteErrorStopsFeeders ==
    \A c \in Calls :
        /\ Returned(c) /\ err[c].kind = "write"
        /\ Cardinality({w \in Feeders(c) : werr[c][w] # Nil}) = 1
        => /\ hashset[c] = << >>
           /\ \A w \in Feeders(c) : wpc[c][w] \notin {"recv", "ack"}

\* C6: after a call returned a reader's error that is not io.EOF, no feeder
\* of the call is blocked on readySignals.
C6_ReadErrorStopsFeeders ==
    \A c \in Calls :
        Returned(c) /\ err[c].kind = "read" =>
            \A w \in Feeders(c) : wpc[c][w] # "recv"

\* C7: a call holds its buffer without having Put it, and once it has
\* returned it has Put it exactly once and the buffer is in the pool.
C7_BufferReleasedOnce ==
    \A c \in Calls :
        /\ Leased(c) => puts[c] = 0 /\ buffer[c] \notin bufferPool
        /\ Returned(c) => puts[c] = 1 /\ buffer[c] \in bufferPool

\* A call with a feeder that returned a reader's error after reading bytes.
C7_Witness ==
    /\ Returned(1)
    /\ err[1].kind = "read"
    /\ pos[1] > 0
    /\ nh[1] >= 1

\* The last Read of call c returned an error that is not io.EOF.
ReadFailed(c) == readErr[c] # Nil /\ ~IsEOF(readErr[c])

\* C8: once a Read returned an error that is not io.EOF, with or without
\* bytes, the call has returned exactly that error, and from then on reads
\* nothing more and no feeder receives a chunk length.
C8_ReadErrorVerbatim ==
    /\ [](\A c \in Calls : ReadFailed(c) => Returned(c) /\ err[c] = readErr[c])
    /\ [][\A c \in Calls : ReadFailed(c) =>
            /\ pc'[c] = pc[c] /\ pos'[c] = pos[c]
            /\ readErr'[c] = readErr[c] /\ bytesRead'[c] = bytesRead[c]
            /\ wn'[c] = wn[c]
            /\ \A w \in Feeders(c) : wpc[c][w] = "recv" => wpc'[c][w] = "recv"]_vars

\* A Read that returned bytes together with the reader's error.
C8_Witness ==
    /\ ReadFailed(1)
    /\ bytesRead[1] > 0
    /\ nh[1] >= 1
    /\ Returned(1)

\* C9: once a non-nil value was received from errorChannel, the call has
\* returned the first such value, and from then on reads nothing more.
C9_FirstWriteError ==
    /\ [](\A c \in Calls :
            /\ firstErr[c] # Nil => Returned(c) /\ err[c] = firstErr[c]
            /\ Returned(c) /\ err[c].kind = "write" => err[c] = firstErr[c])
    /\ [][\A c \in Calls : firstErr[c] # Nil =>
            /\ pc'[c] = pc[c] /\ pos'[c] = pos[c]
            /\ readErr'[c] = readErr[c] /\ bytesRead'[c] = bytesRead[c]]_vars

\* Both feeders' Writes failed in one round; the error of the second was
\* received and returned while the first still waits to send its own.
C9_Witness ==
    /\ Returned(1)
    /\ nh[1] >= 2
    /\ err[1] = ErrWrite(2)
    /\ werr[1][1] = ErrWrite(1)
    /\ wpc[1][1] = "ack"

\* C10: no buffer is held by two calls at once, and a call that returns
\* digests returns those of its own stream.
C10_PoolIsolation ==
    /\ \A c, d \in Calls :
        c # d /\ Leased(c) /\ Leased(d) => buffer[c] # buffer[d]
    /\ \A c \in Calls :
        Returned(c) /\ err[c] = Nil => hashset[c] = WholeStreamDigests(c)

\* Both calls hold a buffer at once, each having read its whole stream
\* through it and about to collect the digest.
C10_Witness ==
    \A c \in Calls :
        /\ pc[c] = "collect"
        /\ wpc[c][1] = "ret"
        /\ hash[c][1] = stream[c]
        /\ stream[c] # << >>

\* C11: bytes that a Read returned with no error or together with io.EOF
\* have been written to every hash by the time the call has returned, unless
\* a Write failed.
C11_BytesWithEOFConsumed ==
    \A c \in Calls :
        Returned(c) /\ ~ReadFailed(c) /\ firstErr[c] = Nil =>
            \A w \in Feeders(c) : hash[c][w] = SubSeq(stream[c], 1, pos[c])

\* C12: without failures and under fair scheduling the call returns: it has
\* read the whole stream, closed readySignals, collected one digest per hash,
\* and every feeder has exited.
C12_Terminates ==
    <>(/\ Returned(1) /\ err[1] = Nil
       /\ pos[1] = Len(stream[1])
       /\ closed[1]
       /\ Len(hashset[1]) = nh[1]
       /\ \A w \in Feeders(1) : wpc[1][w] = "exit")

\* A failure-free call with two hashes over a stream longer than the buffer
\* has returned and both feeders have exited.
C12_Witness ==
    /\ Returned(1) /\ err[1] = Nil
    /\ nh[1] >= 2
    /\ Len(stream[1]) > BufCap
    /\ closed[1]
    /\ \A w \in Feeders(1) : wpc[1][w] = "exit"

\* C13: a call with no hash starts no feeder and sends no length, and when
\* it has returned without its reader having failed it has read the whole
\* stream and returns no digest and no error.
C13_NoHashes ==
    \A c \in Calls :
        nh[c] = 0 /\ pc[c] # "off" =>
            /\ \A w \in Workers : wpc[c][w] = "none" /\ got[c][w] = 0
            /\ pc[c] \notin {"send", "barrier", "collect"}
            /\ Returned(c) /\ ~ReadFailed(c) =>
                /\ err[c] = Nil
                /\ hashset[c] = << >>
                /\ pos[c] = Len(stream[c])

\* C14: when the first Read returns (0, io.EOF), Write is called on no hash,
\* Sum at most once on each, and the call, once returned, returns no error and
\* for each hash the digest of the empty input, each hash finalised once.
C14_EmptyStream ==
    \A c \in Calls :
        firstRead[c] = "eof" =>
            /\ \A w \in Feeders(c) : ~consumed[c][w] /\ sums[c][w] <= 1
            /\ Returned(c) =>
                /\ err[c] = Nil
                /\ hashset[c] = [k \in 1..nh[c] |-> HashSum(k, HashNew)]
                /\ \A w \in Feeders(c) : sums[c][w] = 1

\* A call with two hashes whose first Read reported the end has returned.
C14_Witness ==
    /\ firstRead[1] = "eof"
    /\ Returned(1)
    /\ nh[1] >= 2
    /\ Len(hashset[1]) = 2

\* C15: a call of FromFile whose os.Open failed has returned that error and
\* no digest, having got no buffer and started no feeder; any other call of
\* FromFile that has returned has closed its file.
C15_FileClosed ==
    \A c \in Calls :
        /\ file[c] = "failed" =>
            /\ Returned(c) /\ err[c] = ErrOpen /\ hashset[c] = << >>
            /\ buffer[c] = 0 /\ puts[c] = 0
            /\ \A w \in Workers : wpc[c][w] = "none"
        /\ Returned(c) /\ file[c] # "failed" => file[c] = "closed"
        /\ file[c] = "closed" => Returned(c)

\* FromFile has returned the Write error FromReader returned, the file closed.
C15_Witness ==
    /\ Returned(1)
    /\ err[1].kind = "write"
    /\ file[1] = "closed"

\* C16: Is of an UnavailableHashFunctionError answers true for the target
\* ErrHashFunctionNotAvailable and false for every other error, whatever hash
\* the error carries.
C16_IsMatchesSentinel ==
    isCall.called =>
        /\ isCall.target = ErrHashFunctionNotAvailable => isCall.result
        /\ isCall.result =>
            /\ isCall.target.kind = "hashNotAvailable"
            /\ isCall.target.id = 0

\* Is was asked about ErrHashFunctionNotAvailable for the largest hash value.
C16_Witness ==
    /\ isCall.called
    /\ isCall.e = Unavailable(MaxHashId)
    /\ isCall.target = ErrHashFunctionNotAvailable
    /\ isCall.result

\* C17: in every round each feeder receives exactly one of the lengths sent
\* on the shared readySignals and sends exactly one of the values received
\* from the shared errorChannel: after k sends k different feeders hold the
\* length of this round, the receiving loop starts only when every feeder
\* has it, and the next Read starts only when every feeder has answered once,
\* all accumulators then holding the same bytes.
C17_OneSignalOneAck ==
    \A c \in Calls :
        /\ \A w \in Workers :
            /\ got[c][w] <= 1
            /\ acked[c][w] <= got[c][w]
            /\ w \notin Feeders(c) => got[c][w] = 0
            /\ got[c][w] = 1 /\ pc[c] \in {"send", "barrier"} =>
                   wn[c][w] = bytesRead[c]
        /\ pc[c] = "send" =>
               /\ Cardinality({w \in Feeders(c) : got[c][w] = 1}) = i[c]
               /\ \A w \in Feeders(c) : acked[c][w] = 0
        /\ pc[c] = "barrier" =>
               /\ \A w \in Feeders(c) : got[c][w] = 1
               /\ Cardinality({w \in Feeders(c) : acked[c][w] = 1}) = i[c]
        /\ pc[c] = "read" /\ firstRead[c] # "none" =>
               /\ \A w \in Feeders(c) : got[c][w] = 1 /\ acked[c][w] = 1
               /\ \A w1, w2 \in Feeders(c) : hash[c][w1] = hash[c][w2]

\* Two feeders have each taken and answered the length of a round that was
\* not the first, and the next Read is due.
C17_Witness ==
    /\ pc[1] = "read"
    /\ nh[1] = MaxHashes
    /\ pos[1] > BufCap
    /\ \A w \in Feeders(1) : got[1][w] = 1 /\ acked[1][w] = 1 /\ Len(hash[1][w]) = pos[1]

\* C18: each accumulator is finalised (hash.Sum) at most once, by its own
\* feeder, only after readySignals was closed and when no Write of that
\* feeder is under way or still to come; once finalised, the accumulator is
\* never written again and its feeder never takes another length.
C18_SumOnceAfterClose ==
    /\ [](\A c \in Calls, w \in Workers :
            /\ sums[c][w] <= 1
            /\ sums[c][w] = 1 =>
                /\ w \in Feeders(c)
                /\ closed[c]
                /\ wpc[c][w] \in {"ret", "exit"})
    /\ [][\A c \in Calls, w \in Workers :
            /\ sums[c][w] = 1 =>
                /\ hash'[c][w] = hash[c][w]
                /\ wpc'[c][w] \in {"ret", "exit"}
            /\ sums'[c][w] # sums[c][w] =>
                /\ wpc[c][w] = "recv"
                /\ hash'[c][w] = hash[c][w]]_vars

\* Two accumulators that were written in more than one round have been
\* finalised and the call has returned their digests.
C18_Witness ==
    /\ Returned(1)
    /\ err[1] = Nil
    /\ nh[1] = MaxHashes
    /\ pos[1] > BufCap
    /\ \A w \in Feeders(1) : sums[1][w] = 1 /\ consumed[1][w]

\* C19: when FromReader has put its buffer back into the pool, no feeder of
\* that call is still inside a Write on the buffer.
C19_NoReaderAtPut ==
    \A c \in Calls :
        puts[c] >= 1 => \A w \in Workers : wpc[c][w] # "write"

\* The bytes data.Read delivered in the round call c is in.
RoundBytes(c) == SubSeq(stream[c], pos[c] - bytesRead[c] + 1, pos[c])

\* C20: a Write of a feeder that succeeds adds to its accumulator exactly the
\* bytes the Read of that round delivered, which are the first bytesRead
\* bytes of the buffer, and a Write that fails adds some of the first of
\* them: what the buffer holds beyond that length is never written to an
\* accumulator.  A Read that returns (0, nil) is sent to the feeders as the
\* length 0, does not close readySignals or end the call, and the Write of
\* that round leaves the accumulator as it was.
C20_ExactChunk ==
    /\ [](\A c \in Calls :
            /\ pc[c] \in {"send", "barrier"} =>
                /\ SubSeq(mem[buffer[c]], 1, bytesRead[c]) = RoundBytes(c)
                /\ \A w \in Feeders(c) :
                       wpc[c][w] \in {"write", "ack"} => wn[c][w] = bytesRead[c]
            /\ closed[c] => bytesRead[c] = 0 /\ readErr[c] = EOF)
    /\ [][\A c \in Calls :
            /\ \A w \in Workers :
                IF wpc[c][w] = "write" /\ wpc'[c][w] # "write"
                THEN /\ Len(hash'[c][w]) <= Len(hash[c][w]) + wn[c][w]
                     /\ hash'[c][w] =
                            hash[c][w] \o
                            SubSeq(RoundBytes(c), 1, Len(hash'[c][w]) - Len(hash[c][w]))
                     /\ werr'[c][w] = Nil =>
                            hash'[c][w] = hash[c][w] \o RoundBytes(c)
                ELSE hash'[c][w] = hash[c][w]
            /\ pc[c] = "read" /\ pc'[c] # "read" /\ bytesRead'[c] = 0
                    /\ readErr'[c] = Nil =>
                /\ pc'[c] = "send"
                /\ ~closed'[c]]_vars

\* After a round of two bytes came a Read that returned (0, nil): the buffer
\* still holds the two bytes, both feeders were sent the length 0 and have
\* written, and their accumulators hold the two bytes once.
C20_Witness ==
    /\ pc[1] = "barrier"
    /\ nh[1] = MaxHashes
    /\ bytesRead[1] = 0 /\ readErr[1] = Nil
    /\ pos[1] = 2
    /\ mem[buffer[1]][1] # 0 /\ mem[buffer[1]][2] # 0
    /\ \A w \in Feeders(1) :
        /\ wpc[1][w] = "ack" /\ werr[1][w] = Nil
        /\ hash[1][w] = SubSeq(stream[1], 1, 2)

=============================================================================
